---- MODULE Spec2Model ----
(***************************************************************************)
(* Model of internal/db/bundb/emoji.go: the emoji / emoji-category         *)
(* repository (cache-aside reads, cascading delete, paginated listing and  *)
(* batch hydration).                                                       *)
(*                                                                         *)
(* Strings that are compared, lowered or concatenated by the code          *)
(* (shortcodes, domains, cursors, category names) are sequences of ASCII   *)
(* codes; opaque strings (ids, uris, urls) are TLA+ strings.               *)
(* Timestamps (CreatedAt / UpdatedAt) are not part of the model.           *)
(***************************************************************************)
EXTENDS Integers, Sequences, FiniteSets, TLC

(***************************************************************************)
(* Bounds                                                                  *)
(***************************************************************************)
\* largest value of the limit argument of GetEmojis that is tried
MaxLimit == 2

(***************************************************************************)
(* Strings                                                                 *)
(***************************************************************************)
\* strings.ToLower / SQL LOWER(): ASCII upper-case letters are shifted
Lower(s) == [i \in DOMAIN s |-> IF s[i] \in 65..90 THEN s[i] + 32 ELSE s[i]]

\* SQL string comparison a < b (byte-wise, case-sensitive)
StrLess(a, b) ==
    \E i \in 1..(Len(b)) :
        /\ \A j \in 1..(i - 1) : j <= Len(a) /\ a[j] = b[j]
        /\ \/ i = Len(a) + 1
           \/ i <= Len(a) /\ a[i] < b[i]

\* the SQL NULL of a nullable text column
NULL == <<0>>

\* SQL COALESCE(x, d)
COALESCE(x, d) == IF x = NULL THEN d ELSE x

S_cat == <<99, 97, 116>>
S_Cat == <<67, 97, 116>>
S_dog == <<100, 111, 103>>
S_Eel == <<69, 101, 108>>
S_at  == <<64>>
S_rx  == <<114, 46, 120>>
S_Pet == <<80, 101, 116>>
S_pet == <<112, 101, 116>>
S_art == <<97, 114, 116>>
S_empty == <<>>

\* db.EmojiAllDomains: the reserved "no domain filter" value of GetEmojis
EmojiAllDomains == <<97, 108, 108>>

(***************************************************************************)
(* Entities.  A gtsmodel.Emoji as the Go code holds it has Domain = ""     *)
(* for a local emoji; its row in the emojis table has domain NULL.         *)
(***************************************************************************)
AllEmojiIDs == {"id1", "id2", "id3", "id4"}
AllCategoryIDs == {"c1", "c2"}

Shortcode(id) ==
    CASE id = "id1" -> S_cat
      [] id = "id2" -> S_dog
      [] id = "id3" -> S_Cat
      [] OTHER      -> S_Eel

Domain(id) == IF id = "id3" THEN S_rx ELSE S_empty

\* a gtsmodel.Emoji value a caller can hold for the given id
Emoji(id, disabled, visible) ==
    [id |-> id, shortcode |-> Shortcode(id), domain |-> Domain(id),
     uri |-> <<"uri", id>>, imageStaticURL |-> <<"static", id>>,
     disabled |-> disabled, visibleInPicker |-> visible]

CategoryName(id) == IF id = "c1" THEN S_Pet ELSE S_art

\* a gtsmodel.EmojiCategory value a caller can hold for the given id
EmojiCategory(id) == [id |-> id, name |-> CategoryName(id)]

\* the nil pointer
Nil == [id |-> "nil"]

\* bun `nullzero`: the zero string is written as NULL ...
ToRow(e) == [e EXCEPT !.domain = IF e.domain = S_empty THEN NULL ELSE e.domain]
\* ... and NULL is scanned back into the zero string
Scan(r) == [r EXCEPT !.domain = COALESCE(r.domain, S_empty)]

(***************************************************************************)
(* Errors                                                                  *)
(***************************************************************************)
NoErr == "nil"
\* raw errors of the storage backend
ErrNoRows   == "sql: no rows in result set"
ErrUnique   == "unique constraint violation"
ErrCanceled == "context canceled"
RawErrors == {ErrNoRows, ErrUnique, ErrCanceled}
\* the normalized taxonomy
NotFound           == "NotFound"
NoEntries          == "NoEntries"
TransactionFailure == "TransactionFailure"
BackendError       == "BackendError"
Taxonomy == {NotFound, NoEntries, TransactionFailure, BackendError}

\* conn.ProcessError: translate a backend error into the taxonomy;
\* nil and already translated errors pass through
ProcessError(err) ==
    CASE err = ErrNoRows   -> NotFound
      [] err \in RawErrors -> BackendError
      [] OTHER             -> err

\* what a storage call can be made to fail with (NoErr: it works)
Faults == {NoErr, ErrCanceled}

(***************************************************************************)
(* The cache collaborator (one instance per entity kind): a set of         *)
(* entities holding at most one entity per id.                             *)
(***************************************************************************)
CachePut(c, e) == {x \in c : x.id # e.id} \cup {e}

CacheInvalidate(c, id) == {x \in c : x.id # id}

\* the one element of s, or nil
TheOne(s) == IF s = {} THEN Nil ELSE CHOOSE x \in s : TRUE

CacheGetByID(c, id) == TheOne({x \in c : x.id = id})
CacheGetByURI(c, uri) == TheOne({x \in c : x.uri = uri})
CacheGetByShortcodeDomain(c, shortcode, domain) ==
    TheOne({x \in c : x.shortcode = shortcode /\ x.domain = domain})
CacheGetByImageStaticURL(c, url) == TheOne({x \in c : x.imageStaticURL = url})
CacheGetByName(c, name) == TheOne({x \in c : x.name = name})

(***************************************************************************)
(* The storage collaborator                                                *)
(***************************************************************************)
\* INSERT of record e into a table whose rows are unique by id
InsertErr(rows, e, fault) ==
    IF fault # NoErr THEN fault
    ELSE IF \E r \in rows : r.id = e.id THEN ErrUnique
    ELSE NoErr

\* SELECT of one row among those matching, scanned into a fresh entity
SelectOne(matching, fault) ==
    IF fault # NoErr THEN [ent |-> Nil, err |-> fault]
    ELSE IF matching = {} THEN [ent |-> Nil, err |-> ErrNoRows]
    ELSE [ent |-> Scan(CHOOSE r \in matching : TRUE), err |-> NoErr]

\* SELECT of one category row (no nullable column to scan)
SelectOneCategory(matching, fault) ==
    IF fault # NoErr THEN [ent |-> Nil, err |-> fault]
    ELSE IF matching = {} THEN [ent |-> Nil, err |-> ErrNoRows]
    ELSE [ent |-> CHOOSE r \in matching : TRUE, err |-> NoErr]

\* conn.RunInTx: begin, run the function against the transaction, commit;
\* tx is the outcome of the function on the transaction's working copy.
\* Any failure rolls everything back and is reported as TransactionFailure.
RunInTx(db, tx, beginFault, commitFault) ==
    IF beginFault # NoErr
      THEN [db |-> db, err |-> TransactionFailure, events |-> <<"tx.begin">>]
    ELSE IF tx.err # NoErr
      THEN [db |-> db, err |-> TransactionFailure,
            events |-> <<"tx.begin">> \o tx.events \o <<"tx.rollback">>]
    ELSE IF commitFault # NoErr
      THEN [db |-> db, err |-> TransactionFailure,
            events |-> <<"tx.begin">> \o tx.events \o <<"tx.rollback">>]
    ELSE [db |-> tx.db, err |-> NoErr,
          events |-> <<"tx.begin">> \o tx.events \o <<"tx.commit">>]

(***************************************************************************)
(* The repository operations, as functions of the state they read to the   *)
(* state they leave, the values they return and the storage / cache calls  *)
(* they make (events, in call order).                                      *)
(***************************************************************************)
\* PutEmoji caching the emoji before it knows the outcome of the insert
PutEmoji_PutFirst(rows, cache, emoji, fault) ==
    LET err == InsertErr(rows, emoji, fault) IN
    IF err # NoErr
      THEN [emojis |-> rows, cache |-> CachePut(cache, emoji), ent |-> Nil,
            err |-> ProcessError(err), events |-> <<"cache.Put", "db.insert">>]
      ELSE [emojis |-> rows \cup {ToRow(emoji)}, cache |-> CachePut(cache, emoji),
            ent |-> Nil, err |-> NoErr, events |-> <<"cache.Put", "db.insert">>]

PutEmoji(rows, cache, emoji, fault) ==
    LET err == InsertErr(rows, emoji, fault) IN
    IF err # NoErr
      THEN [emojis |-> rows, cache |-> cache, ent |-> Nil,
            err |-> ProcessError(err), events |-> <<"db.insert">>]
      ELSE [emojis |-> rows \cup {ToRow(emoji)}, cache |-> CachePut(cache, emoji),
            ent |-> Nil, err |-> NoErr, events |-> <<"db.insert", "cache.Put">>]

\* the columns UpdateEmoji can be asked to write
Columns == {"disabled", "visibleInPicker"}

\* UPDATE emojis SET <columns> WHERE id = emoji.ID; no column named: all of them
UpdateRows(rows, emoji, columns) ==
    LET cols == IF columns = {} THEN Columns ELSE columns
        upd(r) == [r EXCEPT
                     !.disabled = IF "disabled" \in cols THEN emoji.disabled ELSE @,
                     !.visibleInPicker =
                         IF "visibleInPicker" \in cols THEN emoji.visibleInPicker ELSE @]
    IN {IF r.id = emoji.id THEN upd(r) ELSE r : r \in rows}

\* UpdateEmoji without the cache invalidation
UpdateEmoji_NoInvalidate(rows, cache, emoji, columns, fault) ==
    IF fault # NoErr
      THEN [emojis |-> rows, cache |-> cache, ent |-> Nil,
            err |-> ProcessError(fault), events |-> <<"db.update">>]
      ELSE [emojis |-> UpdateRows(rows, emoji, columns), cache |-> cache,
            ent |-> emoji, err |-> NoErr, events |-> <<"db.update">>]

UpdateEmoji(rows, cache, emoji, columns, fault) ==
    IF fault # NoErr
      THEN [emojis |-> rows, cache |-> cache, ent |-> Nil,
            err |-> ProcessError(fault), events |-> <<"db.update">>]
      ELSE [emojis |-> UpdateRows(rows, emoji, columns),
            cache |-> CacheInvalidate(cache, emoji.id),
            ent |-> emoji, err |-> NoErr,
            events |-> <<"db.update", "cache.Invalidate">>]

\* where a DeleteEmojiByID can be made to fail
FailPoints == {"none", "begin", "status", "account", "emoji", "commit"}
FaultAt(failAt, point) == IF failAt = point THEN ErrCanceled ELSE NoErr

\* DeleteEmojiTx deleting the status junction rows of every emoji
DeleteEmojiTx_AllStatusRows(db, id, failAt) ==
    LET t1 == [db EXCEPT !.status_to_emojis = {}]
        t2 == [t1 EXCEPT !.account_to_emojis = {r \in @ : r.emoji_id # id}]
        t3 == [t2 EXCEPT !.emojis = {r \in @ : r.id # id}]
    IN
    IF failAt = "status"
      THEN [db |-> db, err |-> FaultAt(failAt, "status"),
            events |-> <<"tx.delete status_to_emojis">>]
    ELSE IF failAt = "account"
      THEN [db |-> t1, err |-> FaultAt(failAt, "account"),
            events |-> <<"tx.delete status_to_emojis", "tx.delete account_to_emojis">>]
    ELSE IF failAt = "emoji"
      THEN [db |-> t2, err |-> ProcessError(FaultAt(failAt, "emoji")),
            events |-> <<"tx.delete status_to_emojis", "tx.delete account_to_emojis",
                         "tx.delete emojis">>]
    ELSE [db |-> t3, err |-> NoErr,
          events |-> <<"tx.delete status_to_emojis", "tx.delete account_to_emojis",
                       "tx.delete emojis">>]

\* the function DeleteEmojiByID hands to RunInTx, run on the working copy db
\* of the three tables: the outcome [db, err, events]
DeleteEmojiTx(db, id, failAt) ==
    LET t1 == [db EXCEPT !.status_to_emojis = {r \in @ : r.emoji_id # id}]
        t2 == [t1 EXCEPT !.account_to_emojis = {r \in @ : r.emoji_id # id}]
        t3 == [t2 EXCEPT !.emojis = {r \in @ : r.id # id}]
    IN
    IF failAt = "status"
      THEN [db |-> db, err |-> FaultAt(failAt, "status"),
            events |-> <<"tx.delete status_to_emojis">>]
    ELSE IF failAt = "account"
      THEN [db |-> t1, err |-> FaultAt(failAt, "account"),
            events |-> <<"tx.delete status_to_emojis", "tx.delete account_to_emojis">>]
    ELSE IF failAt = "emoji"
      THEN [db |-> t2, err |-> ProcessError(FaultAt(failAt, "emoji")),
            events |-> <<"tx.delete status_to_emojis", "tx.delete account_to_emojis",
                         "tx.delete emojis">>]
    ELSE [db |-> t3, err |-> NoErr,
          events |-> <<"tx.delete status_to_emojis", "tx.delete account_to_emojis",
                       "tx.delete emojis">>]

\* DeleteEmojiByID running its three deletes on the connection, outside a transaction
DeleteEmojiByID_NoTx(db, cache, id, failAt) ==
    LET tx == DeleteEmojiTx(db, id, failAt) IN
    IF failAt = "begin" \/ failAt = "commit"
      THEN [db |-> db, cache |-> cache, ent |-> Nil, err |-> BackendError, events |-> <<>>]
    ELSE IF tx.err # NoErr
      THEN [db |-> tx.db, cache |-> cache, ent |-> Nil,
            err |-> ProcessError(tx.err), events |-> tx.events]
    ELSE [db |-> tx.db, cache |-> CacheInvalidate(cache, id), ent |-> Nil,
          err |-> NoErr, events |-> tx.events \o <<"cache.Invalidate">>]

\* DeleteEmojiByID invalidating the cache before it runs the transaction
DeleteEmojiByID_InvalidateFirst(db, cache, id, failAt) ==
    LET r == RunInTx(db, DeleteEmojiTx(db, id, failAt),
                     FaultAt(failAt, "begin"), FaultAt(failAt, "commit"))
    IN [db |-> r.db, cache |-> CacheInvalidate(cache, id), ent |-> Nil,
        err |-> r.err, events |-> <<"cache.Invalidate">> \o r.events]

DeleteEmojiByID(db, cache, id, failAt) ==
    LET r == RunInTx(db, DeleteEmojiTx(db, id, failAt),
                     FaultAt(failAt, "begin"), FaultAt(failAt, "commit"))
    IN
    IF r.err # NoErr
      THEN [db |-> r.db, cache |-> cache, ent |-> Nil, err |-> r.err, events |-> r.events]
      ELSE [db |-> r.db, cache |-> CacheInvalidate(cache, id), ent |-> Nil,
            err |-> NoErr, events |-> r.events \o <<"cache.Invalidate">>]

\* &gtsmodel.Emoji{} and &gtsmodel.EmojiCategory{}: the fresh entities a query fills
ZeroEmoji ==
    [id |-> "", shortcode |-> S_empty, domain |-> S_empty, uri |-> <<>>,
     imageStaticURL |-> <<>>, disabled |-> FALSE, visibleInPicker |-> FALSE]
ZeroEmojiCategory == [id |-> "", name |-> S_empty]

\* getEmoji caching whatever the query left in the entity, error or not
getEmoji_PutOnError(cache, cached, q) ==
    IF cached # Nil
      THEN [ent |-> cached, err |-> NoErr, cache |-> cache, events |-> <<"cache.Get">>]
    ELSE IF q.err # NoErr
      THEN [ent |-> Nil, err |-> ProcessError(q.err), cache |-> CachePut(cache, ZeroEmoji),
            events |-> <<"cache.Get", "db.select", "cache.Put">>]
    ELSE [ent |-> q.ent, err |-> NoErr, cache |-> CachePut(cache, q.ent),
          events |-> <<"cache.Get", "db.select", "cache.Put">>]

\* getEmoji querying the database before it looks at the cache
getEmoji_QueryFirst(cache, cached, q) ==
    IF q.err # NoErr
      THEN [ent |-> Nil, err |-> ProcessError(q.err), cache |-> cache,
            events |-> <<"db.select">>]
    ELSE [ent |-> q.ent, err |-> NoErr, cache |-> CachePut(cache, q.ent),
          events |-> <<"db.select", "cache.Put">>]

\* getEmoji returning the error of the query as it got it
getEmoji_RawErr(cache, cached, q) ==
    IF cached # Nil
      THEN [ent |-> cached, err |-> NoErr, cache |-> cache, events |-> <<"cache.Get">>]
    ELSE IF q.err # NoErr
      THEN [ent |-> Nil, err |-> q.err, cache |-> cache,
            events |-> <<"cache.Get", "db.select">>]
    ELSE [ent |-> q.ent, err |-> NoErr, cache |-> CachePut(cache, q.ent),
          events |-> <<"cache.Get", "db.select", "cache.Put">>]

\* getEmoji: cached is what cacheGet() returned, q the outcome dbQuery has
\* when it is called
getEmoji(cache, cached, q) ==
    IF cached # Nil
      THEN [ent |-> cached, err |-> NoErr, cache |-> cache, events |-> <<"cache.Get">>]
    ELSE IF q.err # NoErr
      THEN [ent |-> Nil, err |-> ProcessError(q.err), cache |-> cache,
            events |-> <<"cache.Get", "db.select">>]
    ELSE [ent |-> q.ent, err |-> NoErr, cache |-> CachePut(cache, q.ent),
          events |-> <<"cache.Get", "db.select", "cache.Put">>]

GetEmojiByID(rows, cache, id, fault) ==
    getEmoji(cache, CacheGetByID(cache, id),
             SelectOne({r \in rows : r.id = id}, fault))

GetEmojiByURI(rows, cache, uri, fault) ==
    getEmoji(cache, CacheGetByURI(cache, uri),
             SelectOne({r \in rows : r.uri = uri}, fault))

GetEmojiByShortcodeDomain(rows, cache, shortcode, domain, fault) ==
    getEmoji(cache, CacheGetByShortcodeDomain(cache, shortcode, domain),
             SelectOne(IF domain # S_empty
                         THEN {r \in rows : r.shortcode = shortcode /\ r.domain = domain}
                         ELSE {r \in rows : r.shortcode = Lower(shortcode)
                                            /\ r.domain = NULL},
                       fault))

GetEmojiByStaticURL(rows, cache, imageStaticURL, fault) ==
    getEmoji(cache, CacheGetByImageStaticURL(cache, imageStaticURL),
             SelectOne({r \in rows : r.imageStaticURL = imageStaticURL}, fault))

PutEmojiCategory(rows, cache, emojiCategory, fault) ==
    LET err == InsertErr(rows, emojiCategory, fault) IN
    IF err # NoErr
      THEN [rows |-> rows, cache |-> cache, ent |-> Nil,
            err |-> ProcessError(err), events |-> <<"db.insert">>]
      ELSE [rows |-> rows \cup {emojiCategory}, cache |-> CachePut(cache, emojiCategory),
            ent |-> Nil, err |-> NoErr, events |-> <<"db.insert", "cache.Put">>]

getEmojiCategory(cache, cached, q) ==
    IF cached # Nil
      THEN [ent |-> cached, err |-> NoErr, cache |-> cache, events |-> <<"cache.Get">>]
    ELSE IF q.err # NoErr
      THEN [ent |-> Nil, err |-> ProcessError(q.err), cache |-> cache,
            events |-> <<"cache.Get", "db.select">>]
    ELSE [ent |-> q.ent, err |-> NoErr, cache |-> CachePut(cache, q.ent),
          events |-> <<"cache.Get", "db.select", "cache.Put">>]

GetEmojiCategory(rows, cache, id, fault) ==
    getEmojiCategory(cache, CacheGetByID(cache, id),
                     SelectOneCategory({r \in rows : r.id = id}, fault))

GetEmojiCategoryByName(rows, cache, name, fault) ==
    getEmojiCategory(cache, CacheGetByName(cache, name),
                     SelectOneCategory({r \in rows : Lower(r.name) = Lower(name)}, fault))

(***************************************************************************)
(* Listing and batch hydration                                             *)
(***************************************************************************)
Dialects == {"sqlite", "pg"}

\* ShortcodeDomain without the LOWER() around the concatenation
ShortcodeDomain_NoLower(dialect, r) ==
    CASE dialect = "sqlite" -> (r.shortcode \o S_at) \o COALESCE(r.domain, S_empty)
      [] dialect = "pg"     -> r.shortcode \o S_at \o COALESCE(r.domain, S_empty)

\* the shortcode_domain column of the GetEmojis subquery, per dialect:
\*   sqlite: LOWER(shortcode || '@' || COALESCE(domain, ''))
\*   pg:     LOWER(CONCAT(shortcode, '@', COALESCE(domain, '')))
ShortcodeDomain(dialect, r) ==
    CASE dialect = "sqlite" -> Lower((r.shortcode \o S_at) \o COALESCE(r.domain, S_empty))
      [] dialect = "pg"     -> Lower(r.shortcode \o S_at \o COALESCE(r.domain, S_empty))

\* ORDER BY key ASC / DESC of a set of [key, id] pairs: the ids in that order
RECURSIVE OrderAsc(_)
OrderAsc(S) ==
    IF S = {} THEN <<>>
    ELSE LET m == CHOOSE x \in S : \A y \in S : ~StrLess(y.key, x.key)
         IN <<m.id>> \o OrderAsc(S \ {m})

RECURSIVE OrderDesc(_)
OrderDesc(S) ==
    IF S = {} THEN <<>>
    ELSE LET m == CHOOSE x \in S : \A y \in S : ~StrLess(x.key, y.key)
         IN <<m.id>> \o OrderDesc(S \ {m})

\* LIMIT n
Limit(s, n) == IF Len(s) <= n THEN s ELSE SubSeq(s, 1, n)

\* the in-place reversal loop: for i := len/2 - 1; i >= 0; i-- { swap(i, len-1-i) }
RECURSIVE ReverseFrom(_, _)
ReverseFrom(s, i) ==
    IF i < 0 THEN s
    ELSE LET opp == Len(s) - 1 - i
         IN ReverseFrom([s EXCEPT ![i + 1] = s[opp + 1], ![opp + 1] = s[i + 1]], i - 1)

Reverse(s) == ReverseFrom(s, (Len(s) \div 2) - 1)

\* EmojisOrder paging forwards whenever a forward cursor is given
EmojisOrder_ForwardWins(a) ==
    IF a.minShortcodeDomain # S_empty /\ a.maxShortcodeDomain = S_empty
      THEN "DESC" ELSE "ASC"

\* the sort direction GetEmojis picks
EmojisOrder(a) == IF a.minShortcodeDomain # S_empty THEN "DESC" ELSE "ASC"

\* EmojisWhere taking the all-domains value for the name of a domain
EmojisWhere_AllDomainsExact(dialect, rows, a) ==
    {r \in rows :
        /\ IF a.domain = S_empty THEN r.domain = NULL
           ELSE r.domain = a.domain
        /\ CASE a.includeDisabled /\ ~a.includeEnabled -> r.disabled = TRUE
             [] a.includeEnabled /\ ~a.includeDisabled -> r.disabled = FALSE
             [] OTHER -> TRUE
        /\ a.shortcode # S_empty => Lower(r.shortcode) = Lower(a.shortcode)
        /\ a.maxShortcodeDomain # S_empty =>
               StrLess(Lower(a.maxShortcodeDomain), ShortcodeDomain(dialect, r))
        /\ a.minShortcodeDomain # S_empty =>
               StrLess(ShortcodeDomain(dialect, r), Lower(a.minShortcodeDomain))}

\* EmojisWhere showing only disabled emojis whenever includeDisabled is set
EmojisWhere_DisabledWins(dialect, rows, a) ==
    {r \in rows :
        /\ IF a.domain = S_empty THEN r.domain = NULL
           ELSE IF a.domain # EmojiAllDomains THEN r.domain = a.domain
           ELSE TRUE
        /\ CASE a.includeDisabled -> r.disabled = TRUE
             [] a.includeEnabled /\ ~a.includeDisabled -> r.disabled = FALSE
             [] OTHER -> TRUE
        /\ a.shortcode # S_empty => Lower(r.shortcode) = Lower(a.shortcode)
        /\ a.maxShortcodeDomain # S_empty =>
               StrLess(Lower(a.maxShortcodeDomain), ShortcodeDomain(dialect, r))
        /\ a.minShortcodeDomain # S_empty =>
               StrLess(ShortcodeDomain(dialect, r), Lower(a.minShortcodeDomain))}

\* EmojisWhere with the forward cursor compared by >= instead of >
EmojisWhere_MaxInclusive(dialect, rows, a) ==
    {r \in rows :
        /\ IF a.domain = S_empty THEN r.domain = NULL
           ELSE IF a.domain # EmojiAllDomains THEN r.domain = a.domain
           ELSE TRUE
        /\ CASE a.includeDisabled /\ ~a.includeEnabled -> r.disabled = TRUE
             [] a.includeEnabled /\ ~a.includeDisabled -> r.disabled = FALSE
             [] OTHER -> TRUE
        /\ a.shortcode # S_empty => Lower(r.shortcode) = Lower(a.shortcode)
        /\ a.maxShortcodeDomain # S_empty =>
               ~StrLess(ShortcodeDomain(dialect, r), Lower(a.maxShortcodeDomain))
        /\ a.minShortcodeDomain # S_empty =>
               StrLess(ShortcodeDomain(dialect, r), Lower(a.minShortcodeDomain))}

\* the WHERE clauses of the GetEmojis subquery
EmojisWhere(dialect, rows, a) ==
    {r \in rows :
        /\ IF a.domain = S_empty THEN r.domain = NULL
           ELSE IF a.domain # EmojiAllDomains THEN r.domain = a.domain
           ELSE TRUE
        /\ CASE a.includeDisabled /\ ~a.includeEnabled -> r.disabled = TRUE
             [] a.includeEnabled /\ ~a.includeDisabled -> r.disabled = FALSE
             [] OTHER -> TRUE
        /\ a.shortcode # S_empty => Lower(r.shortcode) = Lower(a.shortcode)
        /\ a.maxShortcodeDomain # S_empty =>
               StrLess(Lower(a.maxShortcodeDomain), ShortcodeDomain(dialect, r))
        /\ a.minShortcodeDomain # S_empty =>
               StrLess(ShortcodeDomain(dialect, r), Lower(a.minShortcodeDomain))}

\* EmojisQuery capping the rows in ascending order, whatever order it returns
EmojisQuery_LimitAscending(dialect, rows, a) ==
    LET keyed == {[key |-> ShortcodeDomain(dialect, r), id |-> r.id] :
                     r \in EmojisWhere(dialect, rows, a)}
        capped == IF a.limit > 0 THEN Limit(OrderAsc(keyed), a.limit) ELSE OrderAsc(keyed)
    IN IF EmojisOrder(a) = "DESC" THEN Reverse(capped) ELSE capped

\* the ids the GetEmojis query scans into emojiIDs
EmojisQuery(dialect, rows, a) ==
    LET keyed == {[key |-> ShortcodeDomain(dialect, r), id |-> r.id] :
                     r \in EmojisWhere(dialect, rows, a)}
        ordered == IF EmojisOrder(a) = "DESC" THEN OrderDesc(keyed) ELSE OrderAsc(keyed)
    IN IF a.limit > 0 THEN Limit(ordered, a.limit) ELSE ordered

\* EmojisIDs without the reversal of a descending result
EmojisIDs_NoReverse(dialect, rows, a) == EmojisQuery(dialect, rows, a)

\* emojiIDs as GetEmojis hands them to emojisFromIDs
EmojisIDs(dialect, rows, a) ==
    IF EmojisOrder(a) = "DESC"
      THEN Reverse(EmojisQuery(dialect, rows, a))
      ELSE EmojisQuery(dialect, rows, a)

\* the loop of emojisFromIDs; faults[id] is what the storage read of id fails with
RECURSIVE emojisLoop(_, _, _, _)
emojisLoop(rows, cache, ids, faults) ==
    IF ids = <<>>
      THEN [list |-> <<>>, cache |-> cache, log |-> <<>>, events |-> <<>>]
      ELSE LET r == GetEmojiByID(rows, cache, Head(ids), faults[Head(ids)])
               rest == emojisLoop(rows, r.cache, Tail(ids), faults)
           IN [list |-> <<r.ent>> \o rest.list,
               cache |-> rest.cache,
               log |-> (IF r.err # NoErr THEN <<[id |-> Head(ids), err |-> r.err]>>
                                         ELSE <<>>) \o rest.log,
               events |-> r.events \o rest.events]

\* emojisFromIDs answering an empty id list with an empty list and no error
emojisFromIDs_EmptyOk(rows, cache, ids, faults) ==
    LET r == emojisLoop(rows, cache, ids, faults)
    IN [list |-> r.list, listNil |-> FALSE, err |-> NoErr, cache |-> r.cache,
        log |-> r.log, events |-> r.events]

emojisFromIDs(rows, cache, ids, faults) ==
    IF Len(ids) = 0
      THEN [list |-> <<>>, listNil |-> TRUE, err |-> NoEntries, cache |-> cache,
            log |-> <<>>, events |-> <<>>]
      ELSE LET r == emojisLoop(rows, cache, ids, faults)
           IN [list |-> r.list, listNil |-> FALSE, err |-> NoErr, cache |-> r.cache,
               log |-> r.log, events |-> r.events]

\* a listing whose id query failed
ScanFailed(cache, scanFault) ==
    [list |-> <<>>, listNil |-> TRUE, err |-> ProcessError(scanFault), cache |-> cache,
     log |-> <<>>, events |-> <<"db.select ids">>, ids |-> <<>>]

\* a listing whose id query gave ids, hydrated into h
Hydrated(ids, h) ==
    [list |-> h.list, listNil |-> h.listNil, err |-> h.err, cache |-> h.cache,
     log |-> h.log, events |-> <<"db.select ids">> \o h.events, ids |-> ids]

GetEmojis(dialect, rows, cache, a, scanFault, faults) ==
    IF scanFault # NoErr THEN ScanFailed(cache, scanFault)
    ELSE Hydrated(EmojisIDs(dialect, rows, a),
                  emojisFromIDs(rows, cache, EmojisIDs(dialect, rows, a), faults))

\* UseableQuery without the restriction to local emojis
UseableQuery_AnyDomain(rows) ==
    OrderAsc({[key |-> r.shortcode, id |-> r.id] :
                 r \in {x \in rows : /\ x.visibleInPicker = TRUE
                                     /\ x.disabled = FALSE}})

\* the ids the GetUseableEmojis query scans into emojiIDs
UseableQuery(rows) ==
    OrderAsc({[key |-> r.shortcode, id |-> r.id] :
                 r \in {x \in rows : /\ x.visibleInPicker = TRUE
                                     /\ x.disabled = FALSE
                                     /\ x.domain = NULL}})

GetUseableEmojis(rows, cache, scanFault, faults) ==
    IF scanFault # NoErr THEN ScanFailed(cache, scanFault)
    ELSE Hydrated(UseableQuery(rows),
                  emojisFromIDs(rows, cache, UseableQuery(rows), faults))

\* the loop of emojiCategoriesFromIDs
RECURSIVE emojiCategoriesLoop(_, _, _, _)
emojiCategoriesLoop(rows, cache, ids, faults) ==
    IF ids = <<>>
      THEN [list |-> <<>>, cache |-> cache, log |-> <<>>, events |-> <<>>]
      ELSE LET r == GetEmojiCategory(rows, cache, Head(ids), faults[Head(ids)])
               rest == emojiCategoriesLoop(rows, r.cache, Tail(ids), faults)
           IN [list |-> <<r.ent>> \o rest.list,
               cache |-> rest.cache,
               log |-> (IF r.err # NoErr THEN <<[id |-> Head(ids), err |-> r.err]>>
                                         ELSE <<>>) \o rest.log,
               events |-> r.events \o rest.events]

emojiCategoriesFromIDs(rows, cache, ids, faults) ==
    IF Len(ids) = 0
      THEN [list |-> <<>>, listNil |-> TRUE, err |-> NoEntries, cache |-> cache,
            log |-> <<>>, events |-> <<>>]
      ELSE LET r == emojiCategoriesLoop(rows, cache, ids, faults)
           IN [list |-> r.list, listNil |-> FALSE, err |-> NoErr, cache |-> r.cache,
               log |-> r.log, events |-> r.events]

\* the ids the GetEmojiCategories query scans into emojiCategoryIDs
CategoriesQuery(rows) == OrderAsc({[key |-> r.name, id |-> r.id] : r \in rows})

GetEmojiCategories(rows, cache, scanFault, faults) ==
    IF scanFault # NoErr THEN ScanFailed(cache, scanFault)
    ELSE Hydrated(CategoriesQuery(rows),
                  emojiCategoriesFromIDs(rows, cache, CategoriesQuery(rows), faults))

(***************************************************************************)
(* State                                                                   *)
(***************************************************************************)
VARIABLES
    dialect,            \* conn.Dialect().Name()
    emojis,             \* table emojis: set of rows
    status_to_emojis,   \* junction table: set of [status_id, emoji_id]
    account_to_emojis,  \* junction table: set of [account_id, emoji_id]
    emoji_categories,   \* table emoji_categories: set of rows
    emojiCache,         \* emojiDB.emojiCache
    categoryCache,      \* emojiDB.categoryCache
    last,               \* the last call: operation, arguments, the faults the storage
                        \* was given, what the call returned, the storage / cache
                        \* calls it made (in order), what it logged
    calls,              \* the calls in flight, per concurrent caller: operation,
                        \* arguments, position in the code, locals, return values
    pages               \* what a caller paging through GetEmojis holds: its filters
                        \* and limit, and the pages it got so far

vars == <<dialect, emojis, status_to_emojis, account_to_emojis, emoji_categories,
          emojiCache, categoryCache, last, calls, pages>>

\* no concurrent caller, no paging caller
NoCalls == <<>>
NoPages == <<>>

\* the three tables DeleteEmojiByID works on
DB == [emojis |-> emojis, status_to_emojis |-> status_to_emojis,
       account_to_emojis |-> account_to_emojis]

\* the record of a call that returns one entity or none
Returned(op, arg, fault, r) ==
    [op |-> op, arg |-> arg, fault |-> fault, ent |-> r.ent, err |-> r.err,
     events |-> r.events, ids |-> <<>>, list |-> <<>>, listNil |-> TRUE, log |-> <<>>]

\* the record of a call that returns a list
ReturnedList(op, arg, fault, r) ==
    [op |-> op, arg |-> arg, fault |-> fault, ent |-> Nil, err |-> r.err,
     events |-> r.events, ids |-> r.ids, list |-> r.list, listNil |-> r.listNil,
     log |-> r.log]

NoCall ==
    [op |-> "none", arg |-> <<>>, fault |-> NoErr, ent |-> Nil, err |-> NoErr,
     events |-> <<>>, ids |-> <<>>, list |-> <<>>, listNil |-> TRUE, log |-> <<>>]

\* a table holds at most one row per id
OneRowPerID(rows) == \A r1, r2 \in rows : r1.id = r2.id => r1 = r2

(***************************************************************************)
(* The public operations as actions                                        *)
(***************************************************************************)
PutEmojiCall(ids) ==
    \E id \in ids, d \in BOOLEAN, v \in {TRUE}, fault \in Faults :
        LET r == PutEmoji(emojis, emojiCache, Emoji(id, d, v), fault) IN
        /\ emojis' = r.emojis
        /\ emojiCache' = r.cache
        /\ last' = Returned("PutEmoji", [emoji |-> Emoji(id, d, v)], fault, r)
        /\ UNCHANGED <<dialect, calls, pages, status_to_emojis, account_to_emojis, emoji_categories,
                       categoryCache>>

UpdateEmojiCall(ids) ==
    \E id \in ids, d \in BOOLEAN, v \in {TRUE}, columns \in SUBSET Columns,
       fault \in Faults :
        LET r == UpdateEmoji(emojis, emojiCache, Emoji(id, d, v), columns, fault) IN
        /\ emojis' = r.emojis
        /\ emojiCache' = r.cache
        /\ last' = Returned("UpdateEmoji",
                            [emoji |-> Emoji(id, d, v), columns |-> columns], fault, r)
        /\ UNCHANGED <<dialect, calls, pages, status_to_emojis, account_to_emojis, emoji_categories,
                       categoryCache>>

DeleteEmojiByIDCall(ids) ==
    \E id \in ids, failAt \in FailPoints :
        LET r == DeleteEmojiByID(DB, emojiCache, id, failAt) IN
        /\ emojis' = r.db.emojis
        /\ status_to_emojis' = r.db.status_to_emojis
        /\ account_to_emojis' = r.db.account_to_emojis
        /\ emojiCache' = r.cache
        /\ last' = Returned("DeleteEmojiByID", [id |-> id], failAt, r)
        /\ UNCHANGED <<dialect, calls, pages, emoji_categories, categoryCache>>

\* a single-entity emoji read with outcome r
EmojiRead(op, arg, fault, r) ==
    /\ emojiCache' = r.cache
    /\ last' = Returned(op, arg, fault, r)
    /\ UNCHANGED <<dialect, calls, pages, emojis, status_to_emojis, account_to_emojis,
                   emoji_categories, categoryCache>>

GetEmojiByIDCall(ids) ==
    \E id \in ids, fault \in Faults :
        EmojiRead("GetEmojiByID", [id |-> id], fault,
                  GetEmojiByID(emojis, emojiCache, id, fault))

GetEmojiByURICall(ids) ==
    \E id \in ids, fault \in Faults :
        EmojiRead("GetEmojiByURI", [uri |-> <<"uri", id>>], fault,
                  GetEmojiByURI(emojis, emojiCache, <<"uri", id>>, fault))

GetEmojiByShortcodeDomainCall ==
    \E shortcode \in {S_cat, S_Cat}, domain \in {S_empty, S_rx}, fault \in Faults :
        EmojiRead("GetEmojiByShortcodeDomain",
                  [shortcode |-> shortcode, domain |-> domain], fault,
                  GetEmojiByShortcodeDomain(emojis, emojiCache, shortcode, domain, fault))

GetEmojiByStaticURLCall(ids) ==
    \E id \in ids, fault \in Faults :
        EmojiRead("GetEmojiByStaticURL", [imageStaticURL |-> <<"static", id>>], fault,
                  GetEmojiByStaticURL(emojis, emojiCache, <<"static", id>>, fault))

PutEmojiCategoryCall(ids) ==
    \E id \in ids, fault \in Faults :
        LET r == PutEmojiCategory(emoji_categories, categoryCache,
                                  EmojiCategory(id), fault) IN
        /\ emoji_categories' = r.rows
        /\ categoryCache' = r.cache
        /\ last' = Returned("PutEmojiCategory", [emojiCategory |-> EmojiCategory(id)],
                            fault, r)
        /\ UNCHANGED <<dialect, calls, pages, emojis, status_to_emojis, account_to_emojis, emojiCache>>

\* a single-entity category read with outcome r
CategoryRead(op, arg, fault, r) ==
    /\ categoryCache' = r.cache
    /\ last' = Returned(op, arg, fault, r)
    /\ UNCHANGED <<dialect, calls, pages, emojis, status_to_emojis, account_to_emojis,
                   emoji_categories, emojiCache>>

GetEmojiCategoryCall(ids) ==
    \E id \in ids, fault \in Faults :
        CategoryRead("GetEmojiCategory", [id |-> id], fault,
                     GetEmojiCategory(emoji_categories, categoryCache, id, fault))

GetEmojiCategoryByNameCall ==
    \E name \in {S_Pet, S_pet}, fault \in Faults :
        CategoryRead("GetEmojiCategoryByName", [name |-> name], fault,
                     GetEmojiCategoryByName(emoji_categories, categoryCache, name, fault))

\* the fault scenarios of a listing call: nothing fails, the id query fails,
\* or the storage read of one id fails
NoFaults(ids) == [id \in ids |-> NoErr]
ListFaults(ids) ==
    {[scan |-> NoErr, read |-> NoFaults(ids)],
     [scan |-> ErrCanceled, read |-> NoFaults(ids)]}
    \cup {[scan |-> NoErr, read |-> [NoFaults(ids) EXCEPT ![id] = ErrCanceled]] :
             id \in ids}

GetEmojisCall(args, ids) ==
    \E a \in args, f \in ListFaults(ids) :
        LET r == GetEmojis(dialect, emojis, emojiCache, a, f.scan, f.read)
        IN /\ emojiCache' = r.cache
           /\ last' = ReturnedList("GetEmojis", a, f.scan, r)
           /\ UNCHANGED <<dialect, calls, pages, emojis, status_to_emojis, account_to_emojis,
                          emoji_categories, categoryCache>>

GetUseableEmojisCall(ids) ==
    \E f \in ListFaults(ids) :
        LET r == GetUseableEmojis(emojis, emojiCache, f.scan, f.read)
        IN /\ emojiCache' = r.cache
           /\ last' = ReturnedList("GetUseableEmojis", <<>>, f.scan, r)
           /\ UNCHANGED <<dialect, calls, pages, emojis, status_to_emojis, account_to_emojis,
                          emoji_categories, categoryCache>>

GetEmojiCategoriesCall(ids) ==
    \E f \in ListFaults(ids) :
        LET r == GetEmojiCategories(emoji_categories, categoryCache, f.scan, f.read)
        IN /\ categoryCache' = r.cache
           /\ last' = ReturnedList("GetEmojiCategories", <<>>, f.scan, r)
           /\ UNCHANGED <<dialect, calls, pages, emojis, status_to_emojis, account_to_emojis,
                          emoji_categories, emojiCache>>

(***************************************************************************)
(* Spec: every public operation, called in any order by one caller, on a   *)
(* small population.                                                       *)
(***************************************************************************)
EmojiIDs == {"id1", "id3"}
CategoryIDs == {"c1"}
StatusIDs == {"status1"}
AccountIDs == {"acct1"}

\* the arguments GetEmojis is called with here: each domain filter, nothing else
DomainArgs ==
    {[domain |-> d, includeDisabled |-> FALSE, includeEnabled |-> FALSE,
      shortcode |-> S_empty, maxShortcodeDomain |-> S_empty,
      minShortcodeDomain |-> S_empty, limit |-> 0] : d \in {S_empty, EmojiAllDomains}}

Init ==
    /\ dialect = "sqlite"
    /\ emojis \in {rows \in SUBSET {ToRow(Emoji(id, d, TRUE)) :
                                        id \in EmojiIDs, d \in BOOLEAN} :
                      OneRowPerID(rows)}
    /\ status_to_emojis \in
           SUBSET {[status_id |-> s, emoji_id |-> r.id] : s \in StatusIDs, r \in emojis}
    /\ account_to_emojis \in
           SUBSET {[account_id |-> a, emoji_id |-> r.id] : a \in AccountIDs, r \in emojis}
    /\ emoji_categories = {}
    /\ emojiCache = {}
    /\ categoryCache = {}
    /\ last = NoCall
    /\ calls = NoCalls
    /\ pages = NoPages

Next ==
    \/ PutEmojiCall(EmojiIDs)
    \/ UpdateEmojiCall(EmojiIDs)
    \/ DeleteEmojiByIDCall(EmojiIDs)
    \/ GetEmojiByIDCall(EmojiIDs)
    \/ GetEmojiByURICall(EmojiIDs)
    \/ GetEmojiByShortcodeDomainCall
    \/ GetEmojiByStaticURLCall(EmojiIDs)
    \/ PutEmojiCategoryCall(CategoryIDs)
    \/ GetEmojiCategoryCall(CategoryIDs)
    \/ GetEmojiCategoryByNameCall
    \/ GetEmojisCall(DomainArgs, EmojiIDs)
    \/ GetUseableEmojisCall(EmojiIDs)
    \/ GetEmojiCategoriesCall(CategoryIDs)

Spec == Init /\ [][Next]_vars

(***************************************************************************)
(* SpecList: one listing call from each configuration of the database and  *)
(* the caches, over every combination of the arguments.                    *)
(***************************************************************************)
S_cat_at == <<99, 97, 116, 64>>
S_Dog_at == <<68, 111, 103, 64>>
S_zz == <<122, 122>>

\* the (disabled, visibleInPicker) values the rows of an emoji id are given
ListFlags(id) ==
    CASE id = "id1" -> {<<FALSE, TRUE>>, <<TRUE, TRUE>>}
      [] id = "id4" -> {<<FALSE, TRUE>>, <<FALSE, FALSE>>}
      [] OTHER      -> {<<FALSE, TRUE>>}

ListDomains == {S_empty, EmojiAllDomains, S_rx}
ListShortcodes == {S_empty, S_Cat}
\* <<maxShortcodeDomain, minShortcodeDomain>>
ListCursors == {<<S_empty, S_empty>>, <<S_cat_at, S_empty>>,
                <<S_empty, S_Dog_at>>, <<S_cat_at, S_Dog_at>>,
                <<S_empty, S_zz>>, <<S_cat_at, S_zz>>}
ListLimits == (-1)..MaxLimit

ListArgs ==
    {[domain |-> domain, includeDisabled |-> includeDisabled,
      includeEnabled |-> includeEnabled, shortcode |-> shortcode,
      maxShortcodeDomain |-> cursors[1], minShortcodeDomain |-> cursors[2],
      limit |-> limit] :
        domain \in ListDomains, includeDisabled \in BOOLEAN, includeEnabled \in BOOLEAN,
        shortcode \in ListShortcodes, cursors \in ListCursors, limit \in ListLimits}

InitListEmojis ==
    /\ emojis \in {rows \in SUBSET {ToRow(Emoji(id, f[1], f[2])) :
                                        id \in AllEmojiIDs, f \in BOOLEAN \X BOOLEAN} :
                      /\ OneRowPerID(rows)
                      /\ \A r \in rows :
                            <<r.disabled, r.visibleInPicker>> \in ListFlags(r.id)}
    /\ emojiCache \in {{}, {Scan(r) : r \in emojis}}
    /\ emoji_categories = {}
    /\ categoryCache = {}

InitListCategories ==
    /\ emojis = {}
    /\ emojiCache = {}
    /\ emoji_categories \in SUBSET {EmojiCategory(id) : id \in AllCategoryIDs}
    /\ categoryCache \in SUBSET emoji_categories

InitList ==
    /\ dialect \in Dialects
    /\ InitListEmojis \/ InitListCategories
    /\ status_to_emojis = {}
    /\ account_to_emojis = {}
    /\ last = NoCall
    /\ calls = NoCalls
    /\ pages = NoPages

\* no call has been made yet
Fresh == last.op = "none"

ListEmojis == Fresh /\ GetEmojisCall(ListArgs, AllEmojiIDs)
ListUseableEmojis == Fresh /\ GetUseableEmojisCall(AllEmojiIDs)
ListEmojiCategories == Fresh /\ GetEmojiCategoriesCall(AllCategoryIDs)

NextList ==
    \/ ListEmojis
    \/ ListUseableEmojis
    \/ ListEmojiCategories

SpecList == InitList /\ [][NextList]_vars

(***************************************************************************)
(* Properties                                                              *)
(***************************************************************************)
HasEvent(l, e) == \E i \in DOMAIN l.events : l.events[i] = e

EmojiReads == {"GetEmojiByID", "GetEmojiByURI", "GetEmojiByShortcodeDomain",
               "GetEmojiByStaticURL"}
CategoryReads == {"GetEmojiCategory", "GetEmojiCategoryByName"}
SingleReads == EmojiReads \cup CategoryReads

\* the calls that go to the storage
StorageEvents == {"db.insert", "db.update", "db.select", "db.select ids", "tx.begin",
                  "tx.delete status_to_emojis", "tx.delete account_to_emojis",
                  "tx.delete emojis", "tx.commit", "tx.rollback"}

\* the caches ec, cc hold an entity under the key the single-entity read l asks for
CacheHolds(l, ec, cc) ==
    CASE l.op = "GetEmojiByID" -> \E e \in ec : e.id = l.arg.id
      [] l.op = "GetEmojiByURI" -> \E e \in ec : e.uri = l.arg.uri
      [] l.op = "GetEmojiByShortcodeDomain" ->
            \E e \in ec : e.shortcode = l.arg.shortcode /\ e.domain = l.arg.domain
      [] l.op = "GetEmojiByStaticURL" -> \E e \in ec : e.imageStaticURL = l.arg.imageStaticURL
      [] l.op = "GetEmojiCategory" -> \E c \in cc : c.id = l.arg.id
      [] l.op = "GetEmojiCategoryByName" -> \E c \in cc : c.name = l.arg.name
      [] OTHER -> FALSE

\* the tables rows, cats hold a row the query of the single-entity read l selects
StorageHolds(l, rows, cats) ==
    CASE l.op = "GetEmojiByID" -> \E r \in rows : r.id = l.arg.id
      [] l.op = "GetEmojiByURI" -> \E r \in rows : r.uri = l.arg.uri
      [] l.op = "GetEmojiByShortcodeDomain" ->
            \E r \in rows :
                IF l.arg.domain = S_empty
                  THEN r.domain = NULL /\ r.shortcode = Lower(l.arg.shortcode)
                  ELSE r.domain = l.arg.domain /\ r.shortcode = l.arg.shortcode
      [] l.op = "GetEmojiByStaticURL" ->
            \E r \in rows : r.imageStaticURL = l.arg.imageStaticURL
      [] l.op = "GetEmojiCategory" -> \E c \in cats : c.id = l.arg.id
      [] l.op = "GetEmojiCategoryByName" ->
            \E c \in cats : Lower(c.name) = Lower(l.arg.name)
      [] OTHER -> FALSE

\* C1: a single-entity read (any of the six) whose cache lookup misses and whose
\* storage load fails - the storage call fails, or no row matches - returns an
\* error and no entity and leaves both caches exactly as they were: no Put.
C1_FailedLoadNeverCached ==
    [][(/\ last'.op \in SingleReads
        /\ ~CacheHolds(last', emojiCache, categoryCache)
        /\ \/ last'.fault # NoErr
           \/ ~StorageHolds(last', emojis, emoji_categories))
       => /\ last'.err # NoErr
          /\ last'.ent = Nil
          /\ emojiCache' = emojiCache
          /\ categoryCache' = categoryCache
          /\ ~HasEvent(last', "cache.Put")]_vars

\* a read by shortcode and domain missed a non-empty cache and its load failed
C1_Witness ==
    /\ last.op = "GetEmojiByShortcodeDomain"
    /\ last.fault = ErrCanceled
    /\ last.err = BackendError
    /\ HasEvent(last, "db.select")
    /\ emojiCache # {}

\* C2: DeleteEmojiByID is all-or-nothing over the three tables: either it returns
\* an error and every row of the three tables is as before - this whenever one
\* of its steps fails - or it returns no error and exactly the rows of the id are
\* gone from all three tables.
C2_DeleteAllOrNothing ==
    [][last'.op = "DeleteEmojiByID"
       => \/ /\ last'.err # NoErr
             /\ emojis' = emojis
             /\ status_to_emojis' = status_to_emojis
             /\ account_to_emojis' = account_to_emojis
          \/ /\ last'.err = NoErr
             /\ last'.fault = "none"
             /\ emojis' = {r \in emojis : r.id # last'.arg.id}
             /\ status_to_emojis' =
                    {r \in status_to_emojis : r.emoji_id # last'.arg.id}
             /\ account_to_emojis' =
                    {r \in account_to_emojis : r.emoji_id # last'.arg.id}]_vars

\* the second delete step failed on an emoji that has rows in all three tables
C2_Witness ==
    /\ last.op = "DeleteEmojiByID"
    /\ last.fault = "account"
    /\ last.err # NoErr
    /\ \E r \in emojis : r.id = last.arg.id
    /\ \E r \in status_to_emojis : r.emoji_id = last.arg.id
    /\ \E r \in account_to_emojis : r.emoji_id = last.arg.id

\* C3: in DeleteEmojiByID every cache.Invalidate comes after the commit of the
\* transaction, and a delete that fails or does not commit leaves the emoji cache
\* exactly as it was.
C3_InvalidateOnlyAfterCommit ==
    [][last'.op = "DeleteEmojiByID"
       => /\ \A i \in DOMAIN last'.events :
                 last'.events[i] = "cache.Invalidate"
                     => \E j \in 1..(i - 1) : last'.events[j] = "tx.commit"
          /\ (last'.err # NoErr \/ ~HasEvent(last', "tx.commit"))
                 => /\ emojiCache' = emojiCache
                    /\ ~HasEvent(last', "cache.Invalidate")]_vars

\* the commit failed while the emoji was cached: its cache entry is still there
C3_Witness ==
    /\ last.op = "DeleteEmojiByID"
    /\ last.fault = "commit"
    /\ last.err # NoErr
    /\ \E e \in emojiCache : e.id = last.arg.id

\* the id a successful UpdateEmoji or DeleteEmojiByID invalidates
Invalidated(l) ==
    CASE l.op = "UpdateEmoji" /\ l.err = NoErr -> {l.arg.emoji.id}
      [] l.op = "DeleteEmojiByID" /\ l.err = NoErr -> {l.arg.id}
      [] OTHER -> {}

\* C4: a successful PutEmoji(e) and a successful load leave the entity in the
\* cache; an entry leaves the cache only by a successful UpdateEmoji or
\* DeleteEmojiByID of its id; and a GetEmojiByID of a cached id returns the cached
\* entity with no error and without any storage call, whatever the storage
\* would answer.
C4_CacheHitNeverTouchesStorage ==
    [][/\ (last'.op = "PutEmoji" /\ last'.err = NoErr) => last'.arg.emoji \in emojiCache'
       /\ (last'.op \in EmojiReads /\ last'.err = NoErr) => last'.ent \in emojiCache'
       /\ \A e \in emojiCache : e \notin emojiCache' => e.id \in Invalidated(last')
       /\ (last'.op = "GetEmojiByID" /\ \E e \in emojiCache : e.id = last'.arg.id)
              => /\ last'.err = NoErr
                 /\ last'.ent \in emojiCache
                 /\ last'.ent.id = last'.arg.id
                 /\ \A i \in DOMAIN last'.events : last'.events[i] \notin StorageEvents
                 /\ emojiCache' = emojiCache]_vars

\* a GetEmojiByID returned the cached entity while the storage was failing
C4_Witness ==
    /\ last.op = "GetEmojiByID"
    /\ last.fault = ErrCanceled
    /\ last.err = NoErr
    /\ last.ent \in emojiCache

\* the columns an UpdateEmoji with the given column list writes
Written(columns) == IF columns = {} THEN Columns ELSE columns

\* C5: a successful UpdateEmoji leaves no cache entry for the id; the
\* GetEmojiByID of that id that follows it queries the storage and returns either
\* the error of that query and no entity, or the stored row, which carries the
\* values of the updated columns; and no cache entry ever differs from its row.
C5_InvalidateOnUpdate ==
    [][/\ (last'.op = "UpdateEmoji" /\ last'.err = NoErr)
              => ~\E e \in emojiCache' : e.id = last'.arg.emoji.id
       /\ (/\ last.op = "UpdateEmoji" /\ last.err = NoErr
           /\ last'.op = "GetEmojiByID" /\ last'.arg.id = last.arg.emoji.id)
              => /\ HasEvent(last', "db.select")
                 /\ last'.err # NoErr => last'.ent = Nil
                 /\ last'.err = NoErr
                        => /\ ToRow(last'.ent) \in emojis
                           /\ \A c \in Written(last.arg.columns) :
                                  last'.ent[c] = last.arg.emoji[c]
       /\ \A e \in emojiCache' : ToRow(e) \in emojis']_vars

\* an UpdateEmoji disabled a stored emoji
C5_Witness ==
    /\ last.op = "UpdateEmoji"
    /\ last.err = NoErr
    /\ "disabled" \in Written(last.arg.columns)
    /\ last.arg.emoji.disabled
    /\ ToRow(last.arg.emoji) \in emojis
    /\ ~\E e \in emojiCache : e.id = last.arg.emoji.id

ListOps == {"GetEmojis", "GetUseableEmojis", "GetEmojiCategories"}

\* the sort key of a row: lower(shortcode + '@' + (domain or ''))
SortKey(r) ==
    Lower(r.shortcode \o <<64>> \o (IF r.domain = NULL THEN <<>> ELSE r.domain))

\* the sort key of the stored emoji with the given id
KeyOf(id) == SortKey(CHOOSE r \in emojis : r.id = id)

\* row r passes the filters of GetEmojis other than the cursors
PassesFilters(r, a) ==
    /\ \/ a.domain = EmojiAllDomains
       \/ a.domain = S_empty /\ r.domain = NULL
       \/ a.domain \notin {EmojiAllDomains, S_empty} /\ r.domain = a.domain
    /\ \/ a.includeDisabled = a.includeEnabled
       \/ a.includeDisabled /\ r.disabled
       \/ a.includeEnabled /\ ~r.disabled
    /\ a.shortcode = S_empty \/ Lower(r.shortcode) = Lower(a.shortcode)

\* ids is strictly ascending by sort key
Ascending(ids) ==
    \A i \in 1..(Len(ids) - 1) : StrLess(KeyOf(ids[i]), KeyOf(ids[i + 1]))

\* ids are the first `limit` (all, when limit <= 0) of the ids of rows `want`
\* in ascending sort-key order
FirstAscending(ids, want, limit) ==
    /\ Ascending(ids)
    /\ \A i \in DOMAIN ids : \E r \in want : r.id = ids[i]
    /\ Len(ids) = IF limit > 0 /\ limit < Cardinality(want) THEN limit
                  ELSE Cardinality(want)
    /\ \A r \in want :
          (\A i \in DOMAIN ids : ids[i] # r.id)
              => \A i \in DOMAIN ids : StrLess(KeyOf(ids[i]), SortKey(r))

\* the listing call got an answer to its id query
Scanned == last.op \in ListOps /\ last.fault = NoErr

\* C6: GetEmojis with a forward cursor c and no backward cursor lists, of the
\* rows passing the other filters, exactly those with sort key > lower(c), in
\* ascending order, cut to the first `limit` when limit > 0; the row whose key is
\* the cursor is not listed; each entity returned is the one of the id listed.
C6_ForwardPagination ==
    (/\ Scanned /\ last.op = "GetEmojis"
     /\ last.arg.maxShortcodeDomain # S_empty
     /\ last.arg.minShortcodeDomain = S_empty)
    => /\ FirstAscending(last.ids,
                         {r \in emojis : /\ PassesFilters(r, last.arg)
                                         /\ StrLess(Lower(last.arg.maxShortcodeDomain),
                                                    SortKey(r))},
                         last.arg.limit)
       /\ \A i \in DOMAIN last.ids : KeyOf(last.ids[i]) # Lower(last.arg.maxShortcodeDomain)
       /\ Len(last.list) = Len(last.ids)
       /\ \A i \in DOMAIN last.list :
              last.list[i] # Nil => last.list[i].id = last.ids[i]

\* a forward page of two after "cat@", with the row of key "cat@" stored
C6_Witness ==
    /\ Scanned /\ last.op = "GetEmojis"
    /\ last.arg.maxShortcodeDomain = S_cat_at
    /\ last.arg.minShortcodeDomain = S_empty
    /\ last.arg.limit = 2
    /\ \E r \in emojis : SortKey(r) = S_cat_at
    /\ last.ids = <<"id3", "id2">>
    /\ \E r \in emojis : r.id = "id4"

\* C7: whatever its arguments, GetEmojis lists ids in ascending sort-key order;
\* with a backward cursor c every id listed has a sort key < lower(c).
C7_BackwardPaginationAscending ==
    (Scanned /\ last.op = "GetEmojis")
    => /\ Ascending(last.ids)
       /\ last.arg.minShortcodeDomain # S_empty
              => \A i \in DOMAIN last.ids :
                     /\ StrLess(KeyOf(last.ids[i]), Lower(last.arg.minShortcodeDomain))
                     /\ PassesFilters(CHOOSE r \in emojis : r.id = last.ids[i], last.arg)

\* a backward page of two rows before "Dog@"
C7_Witness ==
    /\ Scanned /\ last.op = "GetEmojis"
    /\ last.arg.minShortcodeDomain = S_Dog_at
    /\ last.arg.maxShortcodeDomain = S_empty
    /\ last.ids = <<"id1", "id3">>

\* the ids among ids whose resolution was not logged as failed, in order
RECURSIVE Resolved(_, _)
Resolved(ids, log) ==
    IF ids = <<>> THEN <<>>
    ELSE (IF \E i \in DOMAIN log : log[i].id = Head(ids) THEN <<>> ELSE <<Head(ids)>>)
         \o Resolved(Tail(ids), log)

\* C8: a listing that returns a list returns the entities of exactly the ids
\* whose resolution succeeded, in the order of the ids: no nil element, as many
\* elements as resolutions that succeeded.
C8_HydrationSkipsFailures ==
    (last.op \in ListOps /\ last.err = NoErr)
    => /\ \A i \in DOMAIN last.list : last.list[i] # Nil
       /\ [i \in DOMAIN last.list |-> last.list[i].id] = Resolved(last.ids, last.log)

\* C9: a listing whose id query yields no id returns NoEntries and no list and
\* makes no call after the id query, leaving the caches as they were; a listing
\* that returns no error returns a list that is not empty.
C9_EmptyBatchNoEntries ==
    [][last'.op \in ListOps
       => /\ (last'.fault = NoErr /\ last'.ids = <<>>)
                 => /\ last'.err = NoEntries
                    /\ last'.listNil /\ last'.list = <<>>
                    /\ last'.events = <<"db.select ids">>
                    /\ emojiCache' = emojiCache
                    /\ categoryCache' = categoryCache
          /\ last'.err = NoErr => ~last'.listNil /\ Len(last'.list) > 0]_vars

\* a GetEmojis whose filters match none of the stored, cached rows
C9_Witness ==
    /\ Scanned /\ last.op = "GetEmojis"
    /\ last.ids = <<>>
    /\ last.err = NoEntries
    /\ emojis # {}
    /\ emojiCache # {}

\* the stored emoji row with the given id
RowOf(id) == CHOOSE r \in emojis : r.id = id

\* the set of ids in a sequence of ids
IdSet(ids) == {ids[i] : i \in DOMAIN ids}

\* the sort key of row r lies within the cursors of a: > lower(max), < lower(min)
WithinCursors(r, a) ==
    /\ a.maxShortcodeDomain # S_empty => StrLess(Lower(a.maxShortcodeDomain), SortKey(r))
    /\ a.minShortcodeDomain # S_empty => StrLess(SortKey(r), Lower(a.minShortcodeDomain))

\* row r passes the enabled / disabled filter of a
PassesDisabled(r, a) ==
    \/ a.includeDisabled = a.includeEnabled
    \/ a.includeDisabled /\ r.disabled
    \/ a.includeEnabled /\ ~r.disabled

\* row r passes the shortcode filter of a
PassesShortcode(r, a) ==
    a.shortcode = S_empty \/ Lower(r.shortcode) = Lower(a.shortcode)

\* ids lists rows of `want` only: all of them when no limit caps the listing,
\* min(limit, |want|) of them otherwise
ListsFrom(ids, want, limit) ==
    /\ IdSet(ids) \subseteq {r.id : r \in want}
    /\ Len(ids) = Cardinality(IdSet(ids))
    /\ limit <= 0 => IdSet(ids) = {r.id : r \in want}
    /\ limit > 0 => Len(ids) = IF limit < Cardinality(want) THEN limit
                               ELSE Cardinality(want)

\* C11: the domain argument of GetEmojis is a tri-state: with "" exactly the rows
\* with no domain (NULL) are listed, with the all-domains value rows of every
\* domain, with any other value exactly the rows of that domain - among the rows
\* that pass the other filters and cursors, up to the limit.
C11_DomainTriState ==
    (Scanned /\ last.op = "GetEmojis")
    => LET a == last.arg
           others == {r \in emojis : /\ PassesDisabled(r, a) /\ PassesShortcode(r, a)
                                     /\ WithinCursors(r, a)}
       IN /\ a.domain = S_empty
                => ListsFrom(last.ids, {r \in others : r.domain = NULL}, a.limit)
          /\ a.domain = EmojiAllDomains => ListsFrom(last.ids, others, a.limit)
          /\ a.domain \notin {S_empty, EmojiAllDomains}
                => ListsFrom(last.ids, {r \in others : r.domain = a.domain}, a.limit)

\* the all-domains value listed a local and a remote emoji
C11_Witness ==
    /\ Scanned /\ last.op = "GetEmojis"
    /\ last.arg.domain = EmojiAllDomains
    /\ "id1" \in IdSet(last.ids)
    /\ "id3" \in IdSet(last.ids)
    /\ RowOf("id1").domain = NULL
    /\ RowOf("id3").domain = S_rx

\* C12: the enabled / disabled arguments of GetEmojis are a tri-state:
\* includeDisabled alone lists only disabled rows, includeEnabled alone only rows
\* that are not disabled, both or neither lists rows whatever their disabled
\* value - among the rows that pass the other filters and cursors, up to the limit.
C12_EnabledDisabledTriState ==
    (Scanned /\ last.op = "GetEmojis")
    => LET a == last.arg
           others == {r \in emojis :
                         /\ \/ a.domain = EmojiAllDomains
                            \/ a.domain = S_empty /\ r.domain = NULL
                            \/ a.domain \notin {EmojiAllDomains, S_empty}
                                   /\ r.domain = a.domain
                         /\ PassesShortcode(r, a)
                         /\ WithinCursors(r, a)}
       IN /\ (a.includeDisabled /\ ~a.includeEnabled)
                => ListsFrom(last.ids, {r \in others : r.disabled = TRUE}, a.limit)
          /\ (a.includeEnabled /\ ~a.includeDisabled)
                => ListsFrom(last.ids, {r \in others : r.disabled = FALSE}, a.limit)
          /\ (a.includeDisabled = a.includeEnabled)
                => ListsFrom(last.ids, others, a.limit)

\* both flags set listed a disabled and an enabled emoji
C12_Witness ==
    /\ Scanned /\ last.op = "GetEmojis"
    /\ last.arg.includeDisabled /\ last.arg.includeEnabled
    /\ "id1" \in IdSet(last.ids)
    /\ "id2" \in IdSet(last.ids)
    /\ RowOf("id1").disabled
    /\ ~RowOf("id2").disabled

\* C14: GetUseableEmojis lists exactly the stored emojis that are visible in the
\* picker, not disabled and local (no domain), each once, in ascending order of
\* shortcode; every entity it returns is such an emoji.
C14_UseableEmojis ==
    (Scanned /\ last.op = "GetUseableEmojis")
    => /\ IdSet(last.ids) = {r.id : r \in {x \in emojis : /\ x.visibleInPicker
                                                          /\ ~x.disabled
                                                          /\ x.domain = NULL}}
       /\ Len(last.ids) = Cardinality(IdSet(last.ids))
       /\ \A i \in 1..(Len(last.ids) - 1) :
              StrLess(RowOf(last.ids[i]).shortcode, RowOf(last.ids[i + 1]).shortcode)
       /\ Len(last.list) = Len(last.ids)
       /\ \A i \in DOMAIN last.list :
              last.list[i] # Nil
                  => /\ last.list[i].id = last.ids[i]
                     /\ last.list[i].visibleInPicker
                     /\ ~last.list[i].disabled
                     /\ last.list[i].domain = S_empty

\* of a disabled, a remote, a hidden and a useable emoji only the last is listed
C14_Witness ==
    /\ Scanned /\ last.op = "GetUseableEmojis"
    /\ {r.id : r \in emojis} = AllEmojiIDs
    /\ RowOf("id1").disabled
    /\ ~RowOf("id4").visibleInPicker
    /\ last.ids = <<"id2">>
    /\ Len(last.list) = 1 /\ last.list[1] # Nil

\* ids are the last `limit` (all, when limit <= 0) of the ids of rows `want`
\* in ascending sort-key order: the rows left out all have smaller keys
LastAscending(ids, want, limit) ==
    /\ Ascending(ids)
    /\ IdSet(ids) \subseteq {r.id : r \in want}
    /\ Len(ids) = IF limit > 0 /\ limit < Cardinality(want) THEN limit
                  ELSE Cardinality(want)
    /\ \A r \in want :
          r.id \notin IdSet(ids)
              => \A i \in DOMAIN ids : StrLess(SortKey(r), KeyOf(ids[i]))

\* C16: GetEmojis with a backward cursor c and limit k > 0 lists, in ascending
\* order, the k matching rows with the greatest sort keys below lower(c) - the
\* limit caps the descending query, before the reversal; with limit <= 0 all
\* matching rows below lower(c) are listed.
C16_LimitBeforeReversal ==
    (/\ Scanned /\ last.op = "GetEmojis"
     /\ last.arg.minShortcodeDomain # S_empty)
    => LastAscending(last.ids,
                     {r \in emojis : PassesFilters(r, last.arg) /\ WithinCursors(r, last.arg)},
                     last.arg.limit)

\* a backward page of two out of four rows below the cursor: the two greatest
C16_Witness ==
    /\ Scanned /\ last.op = "GetEmojis"
    /\ last.arg.minShortcodeDomain = S_zz
    /\ last.arg.maxShortcodeDomain = S_empty
    /\ last.arg.limit = 2
    /\ Cardinality({r \in emojis : PassesFilters(r, last.arg)}) = 4
    /\ last.ids = <<"id2", "id4">>

\* C20: GetEmojis with both cursors lists only rows with sort key > lower(max)
\* and < lower(min) that pass the other filters, pages backwards - a limit k > 0
\* keeps the k rows nearest below the min cursor - and lists them ascending.
C20_BothCursors ==
    (/\ Scanned /\ last.op = "GetEmojis"
     /\ last.arg.maxShortcodeDomain # S_empty
     /\ last.arg.minShortcodeDomain # S_empty)
    => LET between == {r \in emojis :
                          /\ PassesFilters(r, last.arg)
                          /\ StrLess(Lower(last.arg.maxShortcodeDomain), SortKey(r))
                          /\ StrLess(SortKey(r), Lower(last.arg.minShortcodeDomain))}
           k == last.arg.limit
           n == Len(last.ids)
       IN /\ \A i \in DOMAIN last.ids : RowOf(last.ids[i]) \in between
          /\ \A i, j \in DOMAIN last.ids :
                 i < j => StrLess(KeyOf(last.ids[i]), KeyOf(last.ids[j]))
          /\ k <= 0 => n = Cardinality(between)
          /\ k > 0 => /\ n <= k
                      /\ n < k => n = Cardinality(between)
                      /\ \A r \in between :
                            (\E i \in DOMAIN last.ids : StrLess(SortKey(r), KeyOf(last.ids[i])))
                            \/ r.id \in IdSet(last.ids)

\* both cursors and a limit of two with three rows between them: the first is cut
C20_Witness ==
    /\ Scanned /\ last.op = "GetEmojis"
    /\ last.arg.maxShortcodeDomain = S_cat_at
    /\ last.arg.minShortcodeDomain = S_zz
    /\ last.arg.limit = 2
    /\ last.arg.domain = EmojiAllDomains
    /\ last.ids = <<"id2", "id4">>
    /\ \E r \in emojis : r.id = "id3"
    /\ \E r \in emojis : r.id = "id1"

(***************************************************************************)
(* Properties of the writes                                                *)
(***************************************************************************)
\* C18: a successful DeleteEmojiByID(id) deletes, in one transaction and in this
\* order, the status junction rows, the account junction rows and the emoji row
\* of id, then invalidates id; rows and cache entries of other ids, and the
\* categories, are as before; the GetEmojiByID(id) that follows it returns no
\* entity and an error - NotFound when the storage answers - and leaves no cache
\* entry for id.
C18_SuccessfulDeleteFrame ==
    [][/\ (last'.op = "DeleteEmojiByID" /\ last'.err = NoErr)
              => /\ status_to_emojis' =
                        {r \in status_to_emojis : r.emoji_id # last'.arg.id}
                 /\ account_to_emojis' =
                        {r \in account_to_emojis : r.emoji_id # last'.arg.id}
                 /\ emojis' = {r \in emojis : r.id # last'.arg.id}
                 /\ emojiCache' = {e \in emojiCache : e.id # last'.arg.id}
                 /\ emoji_categories' = emoji_categories
                 /\ categoryCache' = categoryCache
                 /\ last'.events =
                        <<"tx.begin", "tx.delete status_to_emojis",
                          "tx.delete account_to_emojis", "tx.delete emojis",
                          "tx.commit", "cache.Invalidate">>
       /\ (/\ last.op = "DeleteEmojiByID" /\ last.err = NoErr
           /\ last'.op = "GetEmojiByID" /\ last'.arg.id = last.arg.id)
              => /\ last'.ent = Nil
                 /\ last'.err # NoErr
                 /\ last'.fault = NoErr => last'.err = NotFound
                 /\ ~\E e \in emojiCache' : e.id = last.arg.id]_vars

\* an emoji was deleted while another one has rows in all three tables and a
\* cache entry
C18_Witness ==
    /\ last.op = "DeleteEmojiByID"
    /\ last.err = NoErr
    /\ HasEvent(last, "tx.commit")
    /\ \E r \in emojis : r.id # last.arg.id
    /\ \E r \in status_to_emojis : r.emoji_id # last.arg.id
    /\ \E r \in account_to_emojis : r.emoji_id # last.arg.id
    /\ \E e \in emojiCache : e.id # last.arg.id

Writes == {"PutEmoji", "UpdateEmoji", "PutEmojiCategory"}

\* the id of the entity the write l is about
WrittenID(l) ==
    CASE l.op = "PutEmojiCategory" -> l.arg.emojiCategory.id
      [] OTHER -> l.arg.emoji.id

\* C19: a PutEmoji, PutEmojiCategory or UpdateEmoji whose storage write fails - the
\* storage call fails, or the insert meets a row with the same id - returns an
\* error and leaves both caches exactly as they were, with no Put and no
\* Invalidate; a cache Put / Invalidate is made only after the storage write, by
\* a write that returns no error; and the read by id that follows a failed write
\* of a cached id returns the entry that was cached.
C19_FailedWriteNeverTouchesCache ==
    [][/\ (/\ last'.op \in Writes
           /\ \/ last'.fault # NoErr
              \/ last'.op = "PutEmoji" /\ \E r \in emojis : r.id = WrittenID(last')
              \/ last'.op = "PutEmojiCategory"
                     /\ \E r \in emoji_categories : r.id = WrittenID(last'))
              => last'.err # NoErr
       /\ (last'.op \in Writes /\ last'.err # NoErr)
              => /\ emojiCache' = emojiCache
                 /\ categoryCache' = categoryCache
                 /\ ~HasEvent(last', "cache.Put")
                 /\ ~HasEvent(last', "cache.Invalidate")
       /\ last'.op \in Writes
              => \A i \in DOMAIN last'.events :
                     last'.events[i] \in {"cache.Put", "cache.Invalidate"}
                         => /\ last'.err = NoErr
                            /\ \E j \in 1..(i - 1) :
                                   last'.events[j] \in {"db.insert", "db.update"}
       /\ (/\ last.op \in {"PutEmoji", "UpdateEmoji"} /\ last.err # NoErr
           /\ last'.op = "GetEmojiByID" /\ last'.arg.id = WrittenID(last))
              => \A e \in emojiCache :
                     e.id = last'.arg.id => last'.ent = e /\ last'.err = NoErr
       /\ (/\ last.op = "PutEmojiCategory" /\ last.err # NoErr
           /\ last'.op = "GetEmojiCategory" /\ last'.arg.id = WrittenID(last))
              => \A c \in categoryCache :
                     c.id = last'.arg.id => last'.ent = c /\ last'.err = NoErr]_vars

\* a PutEmoji met a row with its id: the entry cached for the id, which differs
\* from the emoji it was given, is still there
C19_Witness ==
    /\ last.op = "PutEmoji"
    /\ last.fault = NoErr
    /\ last.err # NoErr
    /\ \E e \in emojiCache : e.id = last.arg.emoji.id /\ e # last.arg.emoji

(***************************************************************************)
(* SpecConc: two callers, each making one call, interleaved at the calls    *)
(* the code makes to the cache and to the storage.  Each cache call, each   *)
(* storage statement and the transaction of DeleteEmojiByID is one step; no *)
(* lock is held from one step to the next.                                  *)
(***************************************************************************)
Procs == {"p1", "p2"}

\* a caller that has not called yet
Idle ==
    [op |-> "none", arg |-> <<>>, pc |-> "idle", ent |-> Nil, err |-> NoErr,
     events |-> <<>>]

\* getEmoji up to its cache lookup: return what is cached, or go on to the query
\* with a fresh entity
getEmojiLookup(cached) ==
    IF cached # Nil
      THEN [pc |-> "done", ent |-> cached, err |-> NoErr, events |-> <<"cache.Get">>]
      ELSE [pc |-> "query", ent |-> ZeroEmoji, err |-> NoErr, events |-> <<"cache.Get">>]

\* getEmoji returning the loaded entity without placing it in the cache
getEmojiQuery_NoPut(q) ==
    IF q.err # NoErr
      THEN [pc |-> "done", ent |-> Nil, err |-> ProcessError(q.err),
            events |-> <<"db.select">>]
      ELSE [pc |-> "done", ent |-> q.ent, err |-> NoErr, events |-> <<"db.select">>]

\* getEmoji from the query on: return the processed error, or go on to the Put
\* with the entity the query filled
getEmojiQuery(q) ==
    IF q.err # NoErr
      THEN [pc |-> "done", ent |-> Nil, err |-> ProcessError(q.err),
            events |-> <<"db.select">>]
      ELSE [pc |-> "put", ent |-> q.ent, err |-> NoErr, events |-> <<"db.select">>]

\* getEmoji: e.emojiCache.Put(emoji)
getEmojiPut(cache, emoji) == CachePut(cache, emoji)

\* the cache lookup and the rows the query matches, for the reads by id and by uri
ReadLookup(op, arg, cache) ==
    CASE op = "GetEmojiByID"  -> CacheGetByID(cache, arg.id)
      [] op = "GetEmojiByURI" -> CacheGetByURI(cache, arg.uri)

ReadMatching(op, arg, rows) ==
    CASE op = "GetEmojiByID"  -> {r \in rows : r.id = arg.id}
      [] op = "GetEmojiByURI" -> {r \in rows : r.uri = arg.uri}

\* caller p goes on with outcome r of its step
Step(p, r) ==
    calls' = [calls EXCEPT ![p] = [@ EXCEPT !.pc = r.pc, !.ent = r.ent, !.err = r.err,
                                            !.events = @ \o r.events]]

\* a read is called and looks into the cache
ReadLookupStep(p) ==
    /\ calls[p].pc = "idle"
    /\ \E id \in EmojiIDs :
         \E c \in {[op |-> "GetEmojiByID", arg |-> [id |-> id]],
                   [op |-> "GetEmojiByURI", arg |-> [uri |-> <<"uri", id>>]]} :
            LET r == getEmojiLookup(ReadLookup(c.op, c.arg, emojiCache))
            IN calls' = [calls EXCEPT ![p] =
                            [op |-> c.op, arg |-> c.arg, pc |-> r.pc, ent |-> r.ent,
                             err |-> r.err, events |-> r.events]]
    /\ UNCHANGED <<dialect, emojis, status_to_emojis, account_to_emojis,
                   emoji_categories, emojiCache, categoryCache, last, pages>>

\* a read that missed the cache queries the storage
ReadQueryStep(p) ==
    /\ calls[p].pc = "query"
    /\ \E fault \in Faults :
          Step(p, getEmojiQuery(SelectOne(ReadMatching(calls[p].op, calls[p].arg, emojis),
                                          fault)))
    /\ UNCHANGED <<dialect, emojis, status_to_emojis, account_to_emojis,
                   emoji_categories, emojiCache, categoryCache, last, pages>>

\* a read places the entity it loaded in the cache and returns it
ReadPutStep(p) ==
    /\ calls[p].pc = "put"
    /\ emojiCache' = getEmojiPut(emojiCache, calls[p].ent)
    /\ Step(p, [pc |-> "done", ent |-> calls[p].ent, err |-> NoErr,
                events |-> <<"cache.Put">>])
    /\ UNCHANGED <<dialect, emojis, status_to_emojis, account_to_emojis,
                   emoji_categories, categoryCache, last, pages>>

\* UpdateEmoji is called and runs its update statement
UpdateWriteStep(p) ==
    /\ calls[p].pc = "idle"
    /\ \E id \in EmojiIDs, d \in BOOLEAN, fault \in Faults :
          LET emoji == Emoji(id, d, TRUE) IN
          /\ emojis' = IF fault # NoErr THEN emojis
                       ELSE UpdateRows(emojis, emoji, {"disabled"})
          /\ calls' = [calls EXCEPT ![p] =
                          [op |-> "UpdateEmoji",
                           arg |-> [emoji |-> emoji, columns |-> {"disabled"}],
                           pc |-> IF fault # NoErr THEN "done" ELSE "invalidate",
                           ent |-> IF fault # NoErr THEN Nil ELSE emoji,
                           err |-> ProcessError(fault), events |-> <<"db.update">>]]
    /\ UNCHANGED <<dialect, status_to_emojis, account_to_emojis, emoji_categories,
                   emojiCache, categoryCache, last, pages>>

\* DeleteEmojiByID is called and runs its transaction
DeleteTxStep(p) ==
    /\ calls[p].pc = "idle"
    /\ \E id \in EmojiIDs, failAt \in FailPoints :
          LET r == RunInTx(DB, DeleteEmojiTx(DB, id, failAt),
                           FaultAt(failAt, "begin"), FaultAt(failAt, "commit")) IN
          /\ emojis' = r.db.emojis
          /\ status_to_emojis' = r.db.status_to_emojis
          /\ account_to_emojis' = r.db.account_to_emojis
          /\ calls' = [calls EXCEPT ![p] =
                          [op |-> "DeleteEmojiByID", arg |-> [id |-> id],
                           pc |-> IF r.err # NoErr THEN "done" ELSE "invalidate",
                           ent |-> Nil, err |-> r.err, events |-> r.events]]
    /\ UNCHANGED <<dialect, emoji_categories, emojiCache, categoryCache, last, pages>>

\* the id a write in flight is about
WriteID(c) == IF c.op = "UpdateEmoji" THEN c.arg.emoji.id ELSE c.arg.id

\* UpdateEmoji / DeleteEmojiByID invalidates the cache and returns
InvalidateStep(p) ==
    /\ calls[p].pc = "invalidate"
    /\ emojiCache' = CacheInvalidate(emojiCache, WriteID(calls[p]))
    /\ Step(p, [pc |-> "done", ent |-> calls[p].ent, err |-> NoErr,
                events |-> <<"cache.Invalidate">>])
    /\ UNCHANGED <<dialect, emojis, status_to_emojis, account_to_emojis,
                   emoji_categories, categoryCache, last, pages>>

InitConc ==
    /\ dialect = "sqlite"
    /\ emojis \in {rows \in SUBSET {ToRow(Emoji(id, d, TRUE)) :
                                        id \in EmojiIDs, d \in BOOLEAN} :
                      OneRowPerID(rows)}
    /\ status_to_emojis =
           {[status_id |-> s, emoji_id |-> r.id] : s \in StatusIDs, r \in emojis}
    /\ account_to_emojis =
           {[account_id |-> a, emoji_id |-> r.id] : a \in AccountIDs, r \in emojis}
    /\ emoji_categories = {}
    /\ emojiCache \in SUBSET {Scan(r) : r \in emojis}
    /\ categoryCache = {}
    /\ last = NoCall
    /\ calls = [p \in Procs |-> Idle]
    /\ pages = NoPages

NextConc ==
    \E p \in Procs :
        \/ ReadLookupStep(p)
        \/ ReadQueryStep(p)
        \/ ReadPutStep(p)
        \/ UpdateWriteStep(p)
        \/ DeleteTxStep(p)
        \/ InvalidateStep(p)

SpecConc == InitConc /\ [][NextConc]_vars

\* every caller has returned
AllReturned == \A p \in Procs : calls[p].pc = "done"

\* both callers made the same read of the same key, and nobody wrote
SameRead ==
    /\ calls["p1"].op \in {"GetEmojiByID", "GetEmojiByURI"}
    /\ calls["p2"].op = calls["p1"].op
    /\ calls["p2"].arg = calls["p1"].arg

\* C13: when two callers make the same single-entity read concurrently and nobody
\* writes, then under every interleaving, once both have returned: a caller that
\* got no error got the stored row the key selects, the cache holds exactly one
\* entry for its id, equal to that row, both entities returned are equal, and
\* NotFound is returned only when no row matches.
C13_DuplicateMissesBenign ==
    (SameRead /\ AllReturned)
    => /\ \A p \in Procs :
              /\ calls[p].err = NoErr
                    => /\ ToRow(calls[p].ent)
                              \in ReadMatching(calls[p].op, calls[p].arg, emojis)
                       /\ {e \in emojiCache : e.id = calls[p].ent.id} = {calls[p].ent}
              /\ calls[p].err # NoErr => calls[p].ent = Nil
              /\ calls[p].err = NotFound
                    => ReadMatching(calls[p].op, calls[p].arg, emojis) = {}
       /\ (\A p \in Procs : calls[p].err = NoErr)
              => calls["p1"].ent = calls["p2"].ent

\* both callers missed the cache, loaded the row and put it in the cache
C13_Witness ==
    /\ SameRead /\ AllReturned
    /\ \A p \in Procs :
          /\ calls[p].err = NoErr
          /\ calls[p].events = <<"cache.Get", "db.select", "cache.Put">>

\* C15: when a GetEmojiByID(id) runs concurrently with an UpdateEmoji or a
\* DeleteEmojiByID of the same id, then under every interleaving, once both have
\* returned, the cache holds no entry for id that differs from the stored row of
\* id, and none when id has no row.
C15_NoStaleEntryUnderConcurrentWriter ==
    \A p, w \in Procs :
        (/\ AllReturned
         /\ calls[p].op = "GetEmojiByID"
         /\ calls[w].op \in {"UpdateEmoji", "DeleteEmojiByID"}
         /\ WriteID(calls[w]) = calls[p].arg.id)
        => \A e \in emojiCache : e.id = calls[p].arg.id => ToRow(e) \in emojis

(***************************************************************************)
(* SpecPage: one caller paging forwards through GetEmojis on a dataset that *)
(* does not change, each call taking its cursor from the page before, and   *)
(* paging backwards from a page it has got.                                 *)
(***************************************************************************)
\* the cursor a caller derives from an emoji it was given: shortcode@domain
CursorOf(e) == e.shortcode \o S_at \o e.domain

\* the filters and the limit the caller pages with
PageArgs ==
    {[domain |-> domain, includeDisabled |-> includeDisabled,
      includeEnabled |-> includeEnabled, shortcode |-> shortcode,
      maxShortcodeDomain |-> S_empty, minShortcodeDomain |-> S_empty,
      limit |-> limit] :
        domain \in ListDomains, includeDisabled \in BOOLEAN, includeEnabled \in BOOLEAN,
        shortcode \in ListShortcodes, limit \in 1..MaxLimit}

\* the next forward call: after the last entry of the last page, or from the
\* start; NoEntries ends the paging
PageForward ==
    /\ ~pages.done
    /\ LET n == Len(pages.seen)
           cursor == IF n = 0 THEN S_empty
                     ELSE CursorOf(pages.seen[n][Len(pages.seen[n])])
           a == [pages.args EXCEPT !.maxShortcodeDomain = cursor]
           r == GetEmojis(dialect, emojis, emojiCache, a, NoErr, NoFaults(AllEmojiIDs))
       IN /\ emojiCache' = r.cache
          /\ last' = ReturnedList("GetEmojis", a, NoErr, r)
          /\ pages' = [pages EXCEPT
                         !.seen = IF r.err = NoErr THEN Append(@, r.list) ELSE @,
                         !.done = r.err # NoErr,
                         !.forward = @ + 1,
                         !.back = 0]
    /\ UNCHANGED <<dialect, calls, emojis, status_to_emojis, account_to_emojis,
                   emoji_categories, categoryCache>>

\* a backward call from the first entry of page n + 1, with the same limit
PageBackward ==
    /\ \E n \in 1..(Len(pages.seen) - 1) :
          LET a == [pages.args EXCEPT
                      !.minShortcodeDomain = CursorOf(pages.seen[n + 1][1])]
              r == GetEmojis(dialect, emojis, emojiCache, a, NoErr, NoFaults(AllEmojiIDs))
          IN /\ emojiCache' = r.cache
             /\ last' = ReturnedList("GetEmojis", a, NoErr, r)
             /\ pages' = [pages EXCEPT !.back = n]
    /\ UNCHANGED <<dialect, calls, emojis, status_to_emojis, account_to_emojis,
                   emoji_categories, categoryCache>>

InitPage ==
    /\ dialect \in Dialects
    /\ InitListEmojis
    /\ status_to_emojis = {}
    /\ account_to_emojis = {}
    /\ last = NoCall
    /\ calls = NoCalls
    /\ pages \in {[args |-> a, seen |-> <<>>, done |-> FALSE, forward |-> 0, back |-> 0] :
                     a \in PageArgs}

NextPage ==
    \/ PageForward
    \/ PageBackward

SpecPage == InitPage /\ [][NextPage]_vars

\* the ids of a page
PageIDs(page) == [i \in DOMAIN page |-> page[i].id]

\* the ids of the pages, one after the other
RECURSIVE Concat(_)
Concat(ps) == IF ps = <<>> THEN <<>> ELSE PageIDs(Head(ps)) \o Concat(Tail(ps))

\* C17: paging forwards with limit k >= 1 on an unchanging dataset with pairwise
\* distinct sort keys, each call after the last entry of the page before: the
\* pages got so far list matching rows only, in strictly ascending sort-key order
\* across pages (so none twice), skipping none; every page holds k rows but the
\* last, which holds 1..k; the call after the last matching row, and no other,
\* returns NoEntries, after at most one call per matching row and one more; and
\* the backward call from the first entry of page n + 1 returns page n.
C17_ForwardPagingComplete ==
    LET matching == {r \in emojis : PassesFilters(r, pages.args)}
        paged == Concat(pages.seen)
        k == pages.args.limit
    IN /\ \A r1, r2 \in matching : SortKey(r1) = SortKey(r2) => r1 = r2
       /\ Ascending(paged)
       /\ IdSet(paged) \subseteq {r.id : r \in matching}
       /\ \A r \in matching :
              r.id \notin IdSet(paged)
                  => \A i \in DOMAIN paged : StrLess(KeyOf(paged[i]), SortKey(r))
       /\ \A n \in DOMAIN pages.seen :
              /\ Len(pages.seen[n]) \in 1..k
              /\ n < Len(pages.seen) => Len(pages.seen[n]) = k
              /\ \A i \in DOMAIN pages.seen[n] : pages.seen[n][i] # Nil
       /\ pages.done => IdSet(paged) = {r.id : r \in matching}
       /\ (pages.forward > 0 /\ pages.back = 0)
              => (last.err = NoEntries <=> pages.done)
       /\ (IdSet(paged) = {r.id : r \in matching} /\ pages.forward > Len(pages.seen))
              => pages.done
       /\ pages.forward <= Cardinality(matching) + 1
       /\ pages.back # 0
              => /\ last.err = NoErr
                 /\ last.ids = PageIDs(pages.seen[pages.back])

\* four matching rows were paged through by two, the paging has ended, and the
\* backward call from the second page returned the first
C17_Witness ==
    /\ pages.done
    /\ pages.args.limit = 2
    /\ Len(pages.seen) = 2
    /\ Concat(pages.seen) = <<"id1", "id3", "id2", "id4">>
    /\ pages.back = 1
    /\ last.ids = <<"id1", "id3">>

====
